---- MODULE Spec2Model ----
(***************************************************************************)
(* FheGasEst: the cost registry, the estimation arithmetic, the suggestion *)
(* rule and the analysis store of contracts/FheGasEst.sol.                 *)
(*                                                                         *)
(* Every external function of the contract is an operator from the         *)
(* contract storage (a record `st`) and the call arguments to a call       *)
(* result [ok, err, ret, st]; a revert gives back the storage of before    *)
(* the call.  One action per external function applies it to the storage   *)
(* variables and appends the call and its result to `history`.             *)
(***************************************************************************)
EXTENDS Integers, Sequences, FiniteSets, TLC

VARIABLES
    operationCosts,     \* mapping(string => OperationCost)
    contractAnalyses,   \* mapping(address => ContractAnalysis)
    analyzedContracts,  \* address[]
    analysisCount,      \* uint256
    events,             \* the event log of the committed transactions
    history             \* the calls made so far, each with its result

vars == <<operationCosts, contractAnalyses, analyzedContracts, analysisCount,
          events, history>>

(***************************************************************************)
(* Bounds.                                                                 *)
(***************************************************************************)
\* uint256 is scaled to UintBits bits: checked arithmetic reverts above MaxUint.
UintBits == 18
\* Calls per behaviour of Spec.
MaxCalls == 3
\* Longest operations / operationCounts array of SpecArith.
MaxLen == 2

MaxUint == 2 ^ UintBits - 1

(***************************************************************************)
(* Values.                                                                 *)
(***************************************************************************)
\* The names seeded by the constructor.
DefaultNames ==
    {"FHE.add", "FHE.sub", "FHE.mul", "FHE.div", "FHE.gt", "FHE.lt",
     "FHE.eq", "FHE.ne", "FHE.and", "FHE.or", "FHE.not", "FHE.cast"}

\* The keys of operationCosts the model tracks: the seeded names and the
\* two unprefixed names callers pass.
OpUniverse == DefaultNames \cup {"mul", "add"}

Addresses == {"0xA", "0xB"}

OperationCost(operationName, baseCost, perByteCost) ==
    [operationName |-> operationName, baseCost |-> baseCost,
     perByteCost |-> perByteCost]

\* The value a mapping(string => OperationCost) holds at a key never written.
ZeroCost == OperationCost("", 0, 0)

\* The value a mapping(address => ContractAnalysis) holds at a key never written.
ZeroAnalysis ==
    [contractName |-> "", totalFheOps |-> 0, estimatedGas |-> 0,
     optimizationSuggestions |-> <<>>]

ErrLengths == "Invalid input lengths"
ErrUnknown == "Unknown operation"
\* Solidity 0.8 checked arithmetic: Panic(0x11) on overflow.
ErrOverflow == "Panic(0x11)"

(***************************************************************************)
(* constructor                                                             *)
(***************************************************************************)
\* Mutant: every seeded operation gets the cost of FHE.add.
DefaultCostsUniform ==
    [n \in OpUniverse |->
        IF n \in DefaultNames THEN OperationCost(n, 5000, 10) ELSE ZeroCost]

DefaultCosts ==
    [n \in OpUniverse |->
        CASE n = "FHE.add"  -> OperationCost("FHE.add", 5000, 10)
          [] n = "FHE.sub"  -> OperationCost("FHE.sub", 5000, 10)
          [] n = "FHE.mul"  -> OperationCost("FHE.mul", 15000, 20)
          [] n = "FHE.div"  -> OperationCost("FHE.div", 20000, 25)
          [] n = "FHE.gt"   -> OperationCost("FHE.gt", 8000, 15)
          [] n = "FHE.lt"   -> OperationCost("FHE.lt", 8000, 15)
          [] n = "FHE.eq"   -> OperationCost("FHE.eq", 7000, 12)
          [] n = "FHE.ne"   -> OperationCost("FHE.ne", 7000, 12)
          [] n = "FHE.and"  -> OperationCost("FHE.and", 6000, 10)
          [] n = "FHE.or"   -> OperationCost("FHE.or", 6000, 10)
          [] n = "FHE.not"  -> OperationCost("FHE.not", 4000, 8)
          [] n = "FHE.cast" -> OperationCost("FHE.cast", 3000, 5)
          [] OTHER          -> ZeroCost]

\* The storage after construction.
Constructed ==
    [operationCosts    |-> DefaultCosts,
     contractAnalyses  |-> [a \in Addresses |-> ZeroAnalysis],
     analyzedContracts |-> <<>>,
     analysisCount     |-> 0,
     events            |-> <<>>]

(***************************************************************************)
(* Call results.                                                           *)
(***************************************************************************)
\* A call that returns: `ret` is the returned value, `st` the storage after.
Return(st, ret) == [ok |-> TRUE, err |-> "", ret |-> ret, st |-> st]

\* A call that reverts: storage and event log are those of before the call.
Revert(st, msg) == [ok |-> FALSE, err |-> msg, ret |-> <<>>, st |-> st]

(***************************************************************************)
(* Checked uint256 arithmetic (pragma solidity ^0.8.24).                   *)
(***************************************************************************)
\* Mutant: the sum is not checked.
AddUnchecked(a, b) == FALSE

AddOverflows(a, b) == a + b > MaxUint

MulOverflows(a, b) == a # 0 /\ b > MaxUint \div a

(***************************************************************************)
(* updateOperationCost                                                     *)
(***************************************************************************)
\* Mutant: the update replaces baseCost and leaves the stored perByteCost.
updateOperationCostBaseOnly(st, operation, baseCost, perByteCost) ==
    Return(
        [st EXCEPT
            !.operationCosts[operation] =
                OperationCost(operation, baseCost, @.perByteCost),
            !.events = Append(@,
                [event |-> "OperationCostUpdated", operation |-> operation,
                 baseCost |-> baseCost, perByteCost |-> perByteCost])],
        <<>>)

\* Mutant: the update writes the registry and emits nothing.
updateOperationCostSilent(st, operation, baseCost, perByteCost) ==
    Return(
        [st EXCEPT
            !.operationCosts[operation] =
                OperationCost(operation, baseCost, perByteCost)],
        <<>>)

updateOperationCost(st, operation, baseCost, perByteCost) ==
    Return(
        [st EXCEPT
            !.operationCosts[operation] =
                OperationCost(operation, baseCost, perByteCost),
            !.events = Append(@,
                [event |-> "OperationCostUpdated", operation |-> operation,
                 baseCost |-> baseCost, perByteCost |-> perByteCost])],
        <<>>)

(***************************************************************************)
(* analyzeContract                                                         *)
(***************************************************************************)
\* Mutant: the zero baseCost is taken for a cost like any other.
isRegisteredAlways(cost) == cost.baseCost >= 0

\* require(cost.baseCost > 0, "Unknown operation")
isRegistered(cost) == cost.baseCost > 0

\* Mutant: the per-byte part of the gas of one invocation is dropped.
opGasNoBytes(cost, avgDataSize) == cost.baseCost

\* uint256 opGas = cost.baseCost + (cost.perByteCost * avgDataSize), once the
\* checked product and sum are known not to overflow.
opGas(cost, avgDataSize) == cost.baseCost + (cost.perByteCost * avgDataSize)

\* Mutant: both comparisons of the suggestion rule include their threshold.
isFlaggedInclusive(cost, count) == cost.baseCost >= 10000 /\ count >= 5

\* if (cost.baseCost > 10000 && operationCounts[i] > 5)
isFlagged(cost, count) == cost.baseCost > 10000 /\ count > 5

Digit == <<"0", "1", "2", "3", "4", "5", "6", "7", "8", "9">>

\* Strings.toString(uint256): the decimal digits, most significant first.
RECURSIVE toString(_)
toString(value) ==
    IF value < 10 THEN Digit[value + 1]
    ELSE toString(value \div 10) \o Digit[(value % 10) + 1]

\* string(abi.encodePacked("Consider reducing calls to ", operations[i],
\*                         " (", Strings.toString(operationCounts[i]), " calls)"))
suggestionText(operation, count) ==
    "Consider reducing calls to " \o operation \o " (" \o toString(count)
        \o " calls)"

\* appendString: a copy of the array with the element placed after its last.
appendString(array, element) ==
    [i \in 1..(Len(array) + 1) |->
        IF i <= Len(array) THEN array[i] ELSE element]

\* The locals of analyzeContract before the loop; `emitted` are the events the
\* call has emitted so far.
LoopStart ==
    [ok |-> TRUE, err |-> "", totalGas |-> 0, totalOps |-> 0,
     suggestions |-> <<>>, emitted |-> <<>>]

LoopFail(acc, msg) == [acc EXCEPT !.ok = FALSE, !.err = msg]

\* One iteration of the loop, for operations[i] = operation and
\* operationCounts[i] = count.
loopBody(costs, contractAddress, operation, count, avgDataSize, acc) ==
    LET cost == costs[operation] IN
    IF ~isRegistered(cost) THEN LoopFail(acc, ErrUnknown)
    ELSE IF MulOverflows(cost.perByteCost, avgDataSize)
        THEN LoopFail(acc, ErrOverflow)
    ELSE IF AddOverflows(cost.baseCost, cost.perByteCost * avgDataSize)
        THEN LoopFail(acc, ErrOverflow)
    ELSE LET gas == opGas(cost, avgDataSize) IN
    IF MulOverflows(gas, count) THEN LoopFail(acc, ErrOverflow)
    ELSE IF AddOverflows(acc.totalGas, gas * count)
        THEN LoopFail(acc, ErrOverflow)
    ELSE IF AddOverflows(acc.totalOps, count) THEN LoopFail(acc, ErrOverflow)
    ELSE LET suggestion == suggestionText(operation, count) IN
        [acc EXCEPT
            !.totalGas = @ + gas * count,
            !.totalOps = @ + count,
            !.suggestions =
                IF isFlagged(cost, count) THEN appendString(@, suggestion)
                ELSE @,
            !.emitted =
                IF isFlagged(cost, count)
                THEN Append(@, [event |-> "OptimizationSuggested",
                                contractAddress |-> contractAddress,
                                suggestion |-> suggestion])
                ELSE @]

\* for (uint256 i = 0; i < operations.length; i++), from index i on (1-based).
RECURSIVE analyzeLoop(_, _, _, _, _, _, _)
analyzeLoop(costs, contractAddress, operations, operationCounts, avgDataSize, i, acc) ==
    IF i > Len(operations) THEN acc
    ELSE LET next == loopBody(costs, contractAddress, operations[i],
                              operationCounts[i], avgDataSize, acc) IN
         IF next.ok
         THEN analyzeLoop(costs, contractAddress, operations, operationCounts,
                          avgDataSize, i + 1, next)
         ELSE next

\* Mutant: the two totals are stored in each other's field.
buildAnalysisSwapped(contractName, acc) ==
    [contractName |-> contractName,
     totalFheOps |-> acc.totalGas,
     estimatedGas |-> acc.totalOps,
     optimizationSuggestions |-> acc.suggestions]

\* The ContractAnalysis built after the loop.
buildAnalysis(contractName, acc) ==
    [contractName |-> contractName,
     totalFheOps |-> acc.totalOps,
     estimatedGas |-> acc.totalGas,
     optimizationSuggestions |-> acc.suggestions]

\* Mutant: an address that holds an analysis keeps it.
recordAnalysisKeepFirst(st, contractAddress, analysis, emitted) ==
    [st EXCEPT
        !.contractAnalyses[contractAddress] =
            IF @ = ZeroAnalysis THEN analysis ELSE @,
        !.analyzedContracts = Append(@, contractAddress),
        !.analysisCount = @ + 1,
        !.events = @ \o emitted \o
            <<[event |-> "ContractAnalyzed",
               contractAddress |-> contractAddress,
               estimatedGas |-> analysis.estimatedGas]>>]

\* Mutant: an address already in the array is not pushed again.
recordAnalysisDedup(st, contractAddress, analysis, emitted) ==
    [st EXCEPT
        !.contractAnalyses[contractAddress] = analysis,
        !.analyzedContracts =
            IF \E k \in 1..Len(@) : @[k] = contractAddress THEN @
            ELSE Append(@, contractAddress),
        !.analysisCount = @ + 1,
        !.events = @ \o emitted \o
            <<[event |-> "ContractAnalyzed",
               contractAddress |-> contractAddress,
               estimatedGas |-> analysis.estimatedGas]>>]

\* Mutant: the contractName of an address that holds an analysis is kept.
recordAnalysisKeepName(st, contractAddress, analysis, emitted) ==
    [st EXCEPT
        !.contractAnalyses[contractAddress] =
            IF st.contractAnalyses[contractAddress] = ZeroAnalysis
            THEN analysis
            ELSE [analysis EXCEPT !.contractName =
                    st.contractAnalyses[contractAddress].contractName],
        !.analyzedContracts = Append(@, contractAddress),
        !.analysisCount = @ + 1,
        !.events = @ \o emitted \o
            <<[event |-> "ContractAnalyzed",
               contractAddress |-> contractAddress,
               estimatedGas |-> analysis.estimatedGas]>>]

\* Mutant: the counter counts the addresses analysed, not the analyses.
recordAnalysisCountDistinct(st, contractAddress, analysis, emitted) ==
    [st EXCEPT
        !.contractAnalyses[contractAddress] = analysis,
        !.analyzedContracts = Append(@, contractAddress),
        !.analysisCount =
            IF st.contractAnalyses[contractAddress] = ZeroAnalysis
            THEN @ + 1 ELSE @,
        !.events = @ \o emitted \o
            <<[event |-> "ContractAnalyzed",
               contractAddress |-> contractAddress,
               estimatedGas |-> analysis.estimatedGas]>>]

\* Mutant: ContractAnalyzed is emitted ahead of the suggestion events.
recordAnalysisEventFirst(st, contractAddress, analysis, emitted) ==
    [st EXCEPT
        !.contractAnalyses[contractAddress] = analysis,
        !.analyzedContracts = Append(@, contractAddress),
        !.analysisCount = @ + 1,
        !.events = @ \o
            <<[event |-> "ContractAnalyzed",
               contractAddress |-> contractAddress,
               estimatedGas |-> analysis.estimatedGas]>> \o emitted]

\* The storage writes and the final event of a call whose loop completed.
recordAnalysis(st, contractAddress, analysis, emitted) ==
    [st EXCEPT
        !.contractAnalyses[contractAddress] = analysis,
        !.analyzedContracts = Append(@, contractAddress),
        !.analysisCount = @ + 1,
        !.events = @ \o emitted \o
            <<[event |-> "ContractAnalyzed",
               contractAddress |-> contractAddress,
               estimatedGas |-> analysis.estimatedGas]>>]

\* Mutant: the suggestion events of a failed loop stay in the event log.
analyzeBatchLeakyEvents(st, contractAddress, contractName, operations, operationCounts, avgDataSize) ==
    LET acc == analyzeLoop(st.operationCosts, contractAddress, operations,
                           operationCounts, avgDataSize, 1, LoopStart) IN
    IF ~acc.ok
    THEN Revert([st EXCEPT !.events = @ \o acc.emitted], acc.err)
    ELSE IF AddOverflows(st.analysisCount, 1) THEN Revert(st, ErrOverflow)
    ELSE LET analysis == buildAnalysis(contractName, acc) IN
        Return(recordAnalysis(st, contractAddress, analysis, acc.emitted),
               analysis)

\* Mutant: the operations already stored for the address are added to the
\* total of the new analysis.
analyzeBatchAccumulating(st, contractAddress, contractName, operations, operationCounts, avgDataSize) ==
    LET acc == analyzeLoop(st.operationCosts, contractAddress, operations,
                           operationCounts, avgDataSize, 1, LoopStart) IN
    IF ~acc.ok THEN Revert(st, acc.err)
    ELSE IF AddOverflows(st.analysisCount, 1) THEN Revert(st, ErrOverflow)
    ELSE LET fresh == buildAnalysis(contractName, acc)
             analysis == [fresh EXCEPT !.totalFheOps =
                            @ + st.contractAnalyses[contractAddress].totalFheOps] IN
         Return(recordAnalysis(st, contractAddress, analysis, acc.emitted), analysis)

\* analyzeContract after its first require: the loop, the record, the return.
analyzeBatch(st, contractAddress, contractName, operations, operationCounts, avgDataSize) ==
    LET acc == analyzeLoop(st.operationCosts, contractAddress, operations,
                           operationCounts, avgDataSize, 1, LoopStart) IN
    IF ~acc.ok THEN Revert(st, acc.err)
    ELSE IF AddOverflows(st.analysisCount, 1) THEN Revert(st, ErrOverflow)
    ELSE LET analysis == buildAnalysis(contractName, acc) IN
        Return(recordAnalysis(st, contractAddress, analysis, acc.emitted),
               analysis)

\* Mutant: the operations are looked up before the lengths are compared.
analyzeContractLookupFirst(st, contractAddress, contractName, operations, operationCounts, avgDataSize) ==
    IF \E i \in 1..Len(operations) :
            ~isRegistered(st.operationCosts[operations[i]])
    THEN Revert(st, ErrUnknown)
    ELSE IF Len(operations) # Len(operationCounts) THEN Revert(st, ErrLengths)
    ELSE analyzeBatch(st, contractAddress, contractName, operations,
                      operationCounts, avgDataSize)

\* Mutant: an empty batch is answered without being recorded.
analyzeContractSkipEmpty(st, contractAddress, contractName, operations, operationCounts, avgDataSize) ==
    IF Len(operations) # Len(operationCounts) THEN Revert(st, ErrLengths)
    ELSE IF operations = <<>>
    THEN Return(st, [contractName |-> contractName, totalFheOps |-> 0,
                     estimatedGas |-> 0, optimizationSuggestions |-> <<>>])
    ELSE analyzeBatch(st, contractAddress, contractName, operations, operationCounts, avgDataSize)

analyzeContract(st, contractAddress, contractName, operations, operationCounts, avgDataSize) ==
    IF Len(operations) # Len(operationCounts) THEN Revert(st, ErrLengths)
    ELSE analyzeBatch(st, contractAddress, contractName, operations,
                      operationCounts, avgDataSize)

(***************************************************************************)
(* Views.                                                                  *)
(***************************************************************************)
\* Mutant: an address without an analysis is an error.
getAnalysisStrict(st, contractAddress) ==
    IF st.contractAnalyses[contractAddress] = ZeroAnalysis
    THEN Revert(st, "Not analyzed")
    ELSE Return(st, st.contractAnalyses[contractAddress])

getAnalysis(st, contractAddress) ==
    Return(st, st.contractAnalyses[contractAddress])

estimateSingleOperation(st, operation, dataSize) ==
    LET cost == st.operationCosts[operation] IN
    IF ~isRegistered(cost) THEN Revert(st, ErrUnknown)
    ELSE IF MulOverflows(cost.perByteCost, dataSize)
        THEN Revert(st, ErrOverflow)
    ELSE IF AddOverflows(cost.baseCost, cost.perByteCost * dataSize)
        THEN Revert(st, ErrOverflow)
    ELSE Return(st, cost.baseCost + (cost.perByteCost * dataSize))

getAllAnalyzedContracts(st) == Return(st, st.analyzedContracts)

\* Mutant: the getter rejects a record whose baseCost is 0.
operationCostsGetterStrict(st, operation) ==
    IF st.operationCosts[operation].baseCost = 0 THEN Revert(st, ErrUnknown)
    ELSE Return(st, st.operationCosts[operation])

\* The getter of the public mapping operationCosts.
operationCostsGetter(st, operation) ==
    Return(st, st.operationCosts[operation])

(***************************************************************************)
(* The calls, as recorded in `history`.                                    *)
(***************************************************************************)
UpdateCall(operation, baseCost, perByteCost) ==
    [op |-> "updateOperationCost", operation |-> operation,
     baseCost |-> baseCost, perByteCost |-> perByteCost]

AnalyzeCall(contractAddress, contractName, operations, operationCounts, avgDataSize) ==
    [op |-> "analyzeContract", contractAddress |-> contractAddress,
     contractName |-> contractName, operations |-> operations,
     operationCounts |-> operationCounts, avgDataSize |-> avgDataSize]

GetAnalysisCall(contractAddress) ==
    [op |-> "getAnalysis", contractAddress |-> contractAddress]

EstimateCall(operation, dataSize) ==
    [op |-> "estimateSingleOperation", operation |-> operation,
     dataSize |-> dataSize]

GetAllCall == [op |-> "getAllAnalyzedContracts"]

GetterCall(operation) == [op |-> "operationCosts", operation |-> operation]

\* A call together with its outcome.
Logged(call, r) == call @@ [ok |-> r.ok, err |-> r.err, ret |-> r.ret]

\* The contract storage as one record.
State ==
    [operationCosts    |-> operationCosts,
     contractAnalyses  |-> contractAnalyses,
     analyzedContracts |-> analyzedContracts,
     analysisCount     |-> analysisCount,
     events            |-> events]

\* The storage becomes that of the call result; the call is logged.
Commit(call, r) ==
    /\ operationCosts' = r.st.operationCosts
    /\ contractAnalyses' = r.st.contractAnalyses
    /\ analyzedContracts' = r.st.analyzedContracts
    /\ analysisCount' = r.st.analysisCount
    /\ events' = r.st.events
    /\ history' = Append(history, Logged(call, r))

(***************************************************************************)
(* Actions: one per external function.                                     *)
(***************************************************************************)
UpdateOperationCost(operation, baseCost, perByteCost) ==
    Commit(UpdateCall(operation, baseCost, perByteCost),
           updateOperationCost(State, operation, baseCost, perByteCost))

AnalyzeContract(contractAddress, contractName, operations, operationCounts, avgDataSize) ==
    Commit(AnalyzeCall(contractAddress, contractName, operations,
                       operationCounts, avgDataSize),
           analyzeContract(State, contractAddress, contractName, operations,
                           operationCounts, avgDataSize))

GetAnalysis(contractAddress) ==
    Commit(GetAnalysisCall(contractAddress),
           getAnalysis(State, contractAddress))

EstimateSingleOperation(operation, dataSize) ==
    Commit(EstimateCall(operation, dataSize),
           estimateSingleOperation(State, operation, dataSize))

GetAllAnalyzedContracts ==
    Commit(GetAllCall, getAllAnalyzedContracts(State))

OperationCosts(operation) ==
    Commit(GetterCall(operation), operationCostsGetter(State, operation))

(***************************************************************************)
(* Spec: any MaxCalls calls on a newly constructed contract.               *)
(***************************************************************************)
ContractNames == {"Vault", "Token"}

\* The (operations, operationCounts) pairs of the calls of Spec: the empty
\* batch, a flagged operation, arrays of different lengths, the two-operation
\* batch under the seeded names and under the unprefixed names.
SeqBatches ==
    {<< <<>>, <<>> >>,
     << <<"FHE.mul">>, <<6>> >>,
     << <<"FHE.mul">>, <<>> >>,
     << <<"FHE.mul", "FHE.add">>, <<6, 2>> >>,
     << <<"mul", "add">>, <<6, 2>> >>}

SeqAvgDataSizes == {32}

SeqOperations == {"FHE.mul", "mul"}

\* The (baseCost, perByteCost) pairs of the cost updates of Spec.
SeqCosts == {<<0, 20>>, <<20000, 25>>}

SeqDataSizes == {0, 32, 30000}

Init ==
    /\ operationCosts = Constructed.operationCosts
    /\ contractAnalyses = Constructed.contractAnalyses
    /\ analyzedContracts = Constructed.analyzedContracts
    /\ analysisCount = Constructed.analysisCount
    /\ events = Constructed.events
    /\ history = <<>>

NextUpdate ==
    \E operation \in SeqOperations, c \in SeqCosts :
        UpdateOperationCost(operation, c[1], c[2])

NextAnalyze ==
    \E contractAddress \in Addresses, contractName \in ContractNames,
       b \in SeqBatches, avgDataSize \in SeqAvgDataSizes :
        AnalyzeContract(contractAddress, contractName, b[1], b[2], avgDataSize)

NextGetAnalysis == \E contractAddress \in Addresses : GetAnalysis(contractAddress)

NextEstimate ==
    \E operation \in SeqOperations, dataSize \in SeqDataSizes :
        EstimateSingleOperation(operation, dataSize)

NextGetAll == GetAllAnalyzedContracts

NextGetter == \E operation \in SeqOperations : OperationCosts(operation)

Next ==
    /\ Len(history) < MaxCalls
    /\ \/ NextUpdate
       \/ NextAnalyze
       \/ NextGetAnalysis
       \/ NextEstimate
       \/ NextGetAll
       \/ NextGetter

Spec == Init /\ [][Next]_vars

(***************************************************************************)
(* SpecArith: one call, with arrays of up to MaxLen entries and sizes and  *)
(* counts on both sides of every overflow, on a contract that has analysed *)
(* "0xA" once and then had the cost of FHE.mul replaced.                   *)
(***************************************************************************)
ArithOperations == {"FHE.mul", "FHE.add", "mul"}

ArithCounts == {0, 5, 6, 9}

ArithDataSizes == {0, 32, 250, 600}

ArithBaseCosts == {0, 10000, 10001, 15000, 40000}

ArithPerByteCosts == {0, 20, 1000}

SeqsUpTo(S, n) == UNION {[1..k -> S] : k \in 0..n}

ArithFirstCall == AnalyzeCall("0xA", "Vault", <<"FHE.mul">>, <<6>>, 32)

ArithFirst ==
    analyzeContract(Constructed, "0xA", "Vault", <<"FHE.mul">>, <<6>>, 32)

InitArith ==
    \E baseCost \in ArithBaseCosts, perByteCost \in ArithPerByteCosts :
        LET r == updateOperationCost(ArithFirst.st, "FHE.mul", baseCost,
                                     perByteCost) IN
        /\ operationCosts = r.st.operationCosts
        /\ contractAnalyses = r.st.contractAnalyses
        /\ analyzedContracts = r.st.analyzedContracts
        /\ analysisCount = r.st.analysisCount
        /\ events = r.st.events
        /\ history =
            <<Logged(ArithFirstCall, ArithFirst),
              Logged(UpdateCall("FHE.mul", baseCost, perByteCost), r)>>

\* The one call of a behaviour of SpecArith is still to be made.
ArithPending == history[Len(history)].op = "updateOperationCost"

ArithAnalyze ==
    \E contractAddress \in Addresses,
       operations \in SeqsUpTo(ArithOperations, MaxLen),
       operationCounts \in SeqsUpTo(ArithCounts, MaxLen),
       avgDataSize \in ArithDataSizes :
        AnalyzeContract(contractAddress, "Token", operations, operationCounts,
                        avgDataSize)

ArithEstimate ==
    \E operation \in ArithOperations, dataSize \in ArithDataSizes :
        EstimateSingleOperation(operation, dataSize)

NextArith ==
    /\ ArithPending
    /\ \/ ArithAnalyze
       \/ ArithEstimate

SpecArith == InitArith /\ [][NextArith]_vars

(***************************************************************************)
(* What the properties speak of.                                           *)
(***************************************************************************)
\* The most recent call.
Last == history[Len(history)]

LastIs(op) == history # <<>> /\ Last.op = op

\* The cost of `operation` after the first k calls of the history: that of
\* the latest updateOperationCost naming it, else the seeded one.
RECURSIVE CostAsOf(_, _)
CostAsOf(operation, k) ==
    IF k = 0 THEN DefaultCosts[operation]
    ELSE IF /\ history[k].op = "updateOperationCost"
            /\ history[k].operation = operation
         THEN OperationCost(operation, history[k].baseCost,
                            history[k].perByteCost)
         ELSE CostAsOf(operation, k - 1)

\* The gas of the first n entries of a batch, in unbounded arithmetic.
RECURSIVE ExactGas(_, _, _, _, _)
ExactGas(costs, operations, counts, avgDataSize, n) ==
    IF n = 0 THEN 0
    ELSE ExactGas(costs, operations, counts, avgDataSize, n - 1)
         + (costs[operations[n]].baseCost
            + costs[operations[n]].perByteCost * avgDataSize) * counts[n]

\* The sum of the first n counts, in unbounded arithmetic.
RECURSIVE ExactOps(_, _)
ExactOps(counts, n) ==
    IF n = 0 THEN 0 ELSE ExactOps(counts, n - 1) + counts[n]

\* Some value computed at entry i of the batch exceeds the integer range.
OverflowsAt(costs, operations, counts, avgDataSize, i) ==
    LET c == costs[operations[i]] IN
    \/ c.perByteCost * avgDataSize > MaxUint
    \/ c.baseCost + c.perByteCost * avgDataSize > MaxUint
    \/ (c.baseCost + c.perByteCost * avgDataSize) * counts[i] > MaxUint
    \/ ExactGas(costs, operations, counts, avgDataSize, i) > MaxUint
    \/ ExactOps(counts, i) > MaxUint

Unregistered(costs, operation) == costs[operation].baseCost = 0

\* The storage other than the registry is as before the step.
StoreUnchanged ==
    UNCHANGED <<contractAnalyses, analyzedContracts, analysisCount, events>>

(***************************************************************************)
(* C1                                                                      *)
(***************************************************************************)
\* C1: an analyzeContract call with arrays of equal length, every operation
\* registered in the registry of the time of the call and no overflow at any
\* entry returns estimatedGas = the sum over i of
\* (baseCost_i + perByteCost_i * avgDataSize) * counts_i.
C1_AnalyzeTotalIsExactSum ==
    LastIs("analyzeContract") =>
        LET c == Last
            n == Len(c.operations) IN
        ( /\ n = Len(c.operationCounts)
          /\ \A i \in 1..n : ~Unregistered(operationCosts, c.operations[i])
          /\ \A i \in 1..n :
                ~OverflowsAt(operationCosts, c.operations, c.operationCounts,
                             c.avgDataSize, i) )
        => /\ c.ok
           /\ c.ret.estimatedGas =
                ExactGas(operationCosts, c.operations, c.operationCounts,
                         c.avgDataSize, n)

\* A two-operation batch priced with a replaced cost of FHE.mul:
\* (40000 + 20*32)*5 + (5000 + 10*32)*6 = 235120.
C1_Witness ==
    /\ LastIs("analyzeContract")
    /\ Last.ok
    /\ Last.operations = <<"FHE.mul", "FHE.add">>
    /\ Last.operationCounts = <<5, 6>>
    /\ Last.avgDataSize = 32
    /\ operationCosts["FHE.mul"].baseCost = 40000
    /\ operationCosts["FHE.mul"].perByteCost = 20
    /\ Last.ret.estimatedGas = 235120

(***************************************************************************)
(* C2                                                                      *)
(***************************************************************************)
\* C2 as stated: for an operation whose latest cost has baseCost > 0,
\* estimateSingleOperation returns baseCost + perByteCost * dataSize for
\* every dataSize.
C2_EstimateForEveryDataSize ==
    LastIs("estimateSingleOperation") =>
        LET cost == CostAsOf(Last.operation, Len(history) - 1) IN
        cost.baseCost > 0 =>
            /\ Last.ok
            /\ Last.ret = cost.baseCost + cost.perByteCost * Last.dataSize

\* C2 amended: for an operation whose latest cost (the latest
\* updateOperationCost for the name, else the seeded default) has
\* baseCost > 0, estimateSingleOperation returns
\* baseCost + perByteCost * dataSize whenever that value fits the integer
\* range, dataSize = 0 included; when it does not, the call fails with the
\* arithmetic-overflow panic.
C2_EstimateIsLinearInRange ==
    LastIs("estimateSingleOperation") =>
        LET cost == CostAsOf(Last.operation, Len(history) - 1)
            gas == cost.baseCost + cost.perByteCost * Last.dataSize IN
        cost.baseCost > 0 =>
            IF gas <= MaxUint
            THEN Last.ok /\ Last.ret = gas
            ELSE ~Last.ok /\ Last.err = ErrOverflow

\* The cost of "mul" set twice, the estimate uses the second: 20000 + 25*32.
C2_Witness ==
    /\ Len(history) = 3
    /\ history[1].op = "updateOperationCost"
    /\ history[1].operation = "mul"
    /\ history[1].baseCost = 0
    /\ history[2].op = "updateOperationCost"
    /\ history[2].operation = "mul"
    /\ history[2].baseCost = 20000
    /\ Last.op = "estimateSingleOperation"
    /\ Last.operation = "mul"
    /\ Last.dataSize = 32
    /\ Last.ok
    /\ Last.ret = 20800

(***************************************************************************)
(* C3                                                                      *)
(***************************************************************************)
\* C3: estimateSingleOperation fails with "Unknown operation", whatever the
\* dataSize, exactly when the registry holds baseCost 0 for the name (never
\* written, or written with baseCost 0); so it fails after an
\* updateOperationCost(name, 0, p) until a later update gives the name a
\* non-zero baseCost.
C3_UnknownIffZeroBaseCost ==
    LastIs("estimateSingleOperation") =>
        /\ (~Last.ok /\ Last.err = ErrUnknown)
            <=> Unregistered(operationCosts, Last.operation)
        /\ (~Last.ok /\ Last.err = ErrUnknown)
            <=> CostAsOf(Last.operation, Len(history) - 1).baseCost = 0

\* A seeded operation set to baseCost 0 with a non-zero perByteCost, then
\* estimated.
C3_Witness ==
    /\ Len(history) >= 2
    /\ history[Len(history) - 1].op = "updateOperationCost"
    /\ history[Len(history) - 1].operation = "FHE.mul"
    /\ history[Len(history) - 1].baseCost = 0
    /\ history[Len(history) - 1].perByteCost = 20
    /\ Last.op = "estimateSingleOperation"
    /\ Last.operation = "FHE.mul"
    /\ ~Last.ok
    /\ Last.err = ErrUnknown

(***************************************************************************)
(* C4                                                                      *)
(***************************************************************************)
\* The call a step makes.
Made == history'[Len(history')]

\* C4: an analyzeContract call with arrays of different lengths fails with
\* "Invalid input lengths", registered operations or not, and leaves every
\* stored analysis, the analyzedContracts array, analysisCount and the event
\* log as they were.
C4_Step ==
    ( /\ Made.op = "analyzeContract"
      /\ Len(Made.operations) # Len(Made.operationCounts) )
    => /\ ~Made.ok
       /\ Made.err = ErrLengths
       /\ StoreUnchanged
       /\ UNCHANGED operationCosts

C4_MismatchedLengthsRejected == [][C4_Step]_vars

\* A longer operations array that names an unregistered operation, on a
\* contract that holds an analysis.
C4_Witness ==
    /\ LastIs("analyzeContract")
    /\ Last.operations = <<"mul", "FHE.add">>
    /\ Last.operationCounts = <<6>>
    /\ ~Last.ok
    /\ Last.err = ErrLengths
    /\ contractAnalyses["0xA"] # ZeroAnalysis

(***************************************************************************)
(* C5                                                                      *)
(***************************************************************************)
\* The call of the step names, in arrays of equal length, an operation the
\* registry does not hold.
C5_Case ==
    /\ Made.op = "analyzeContract"
    /\ Len(Made.operations) = Len(Made.operationCounts)
    /\ \E i \in 1..Len(Made.operations) :
            Unregistered(operationCosts, Made.operations[i])

\* C5 as stated: such a call fails with "Unknown operation", returns no
\* analysis and leaves the stored analyses, the array, the counter and the
\* event log as they were.
C5_UnknownAlwaysReported ==
    [][C5_Case =>
        (~Made.ok /\ Made.err = ErrUnknown /\ StoreUnchanged)]_vars

\* The first entry of the batch at which the call of the step stops: the
\* first that is unregistered or overflows.
C5_FirstStop ==
    LET stops ==
            {i \in 1..Len(Made.operations) :
                \/ Unregistered(operationCosts, Made.operations[i])
                \/ OverflowsAt(operationCosts, Made.operations,
                               Made.operationCounts, Made.avgDataSize, i)}
    IN CHOOSE i \in stops : \A j \in stops : i <= j

\* C5 amended: an equal-length batch that names an unregistered operation, at
\* any position and with any count, fails as a whole: with "Unknown
\* operation" when no entry before the first unregistered one overflows, with
\* the arithmetic-overflow panic when one does; no analysis is returned and
\* the stored analyses, the array, the counter and the event log are as
\* before the call.
C5_UnknownFailsWholeCall ==
    [][C5_Case =>
        /\ ~Made.ok
        /\ Made.err =
            IF Unregistered(operationCosts, Made.operations[C5_FirstStop])
            THEN ErrUnknown ELSE ErrOverflow
        /\ Made.ret = <<>>
        /\ StoreUnchanged
        /\ UNCHANGED operationCosts]_vars

\* The unregistered operation is the second of the batch and has count 0;
\* the first would have been flagged; "0xA" keeps its analysis.
C5_Witness ==
    /\ LastIs("analyzeContract")
    /\ Last.contractAddress = "0xA"
    /\ Last.operations = <<"FHE.mul", "mul">>
    /\ Last.operationCounts = <<6, 0>>
    /\ operationCosts["FHE.mul"].baseCost = 15000
    /\ ~Last.ok
    /\ Last.err = ErrUnknown
    /\ contractAnalyses["0xA"] = history[1].ret
    /\ contractAnalyses["0xA"] # ZeroAnalysis
    /\ Len(events) = 3

(***************************************************************************)
(* C6                                                                      *)
(***************************************************************************)
\* The suggestions of the first n entries of a batch: one text for each entry
\* with baseCost > 10000 and count > 5, in the order of the entries.
RECURSIVE C6_Expected(_, _, _, _)
C6_Expected(costs, operations, counts, n) ==
    IF n = 0 THEN <<>>
    ELSE C6_Expected(costs, operations, counts, n - 1) \o
         ( IF costs[operations[n]].baseCost > 10000 /\ counts[n] > 5
           THEN << "Consider reducing calls to " \o operations[n] \o " ("
                   \o toString(counts[n]) \o " calls)" >>
           ELSE <<>> )

\* C6: a successful analyzeContract returns one suggestion for entry i exactly
\* when baseCost_i > 10000 and counts_i > 5, each entry judged by itself, and
\* the suggestions are in the order of their entries.
C6_SuggestionsFollowRule ==
    (LastIs("analyzeContract") /\ Last.ok) =>
        Last.ret.optimizationSuggestions =
            C6_Expected(operationCosts, Last.operations, Last.operationCounts,
                        Len(Last.operations))

\* Two entries naming FHE.mul at baseCost 10001, with counts 9 and 6: each
\* gives its own suggestion, in input order.
C6_Witness ==
    /\ LastIs("analyzeContract")
    /\ Last.ok
    /\ operationCosts["FHE.mul"].baseCost = 10001
    /\ Last.operations = <<"FHE.mul", "FHE.mul">>
    /\ Last.operationCounts = <<9, 6>>
    /\ Last.ret.optimizationSuggestions =
        <<"Consider reducing calls to FHE.mul (9 calls)",
          "Consider reducing calls to FHE.mul (6 calls)">>

(***************************************************************************)
(* C7                                                                      *)
(***************************************************************************)
\* The positions in the history of the successful analyzeContract calls for
\* an address.
Analyses(contractAddress) ==
    {k \in 1..Len(history) :
        /\ history[k].op = "analyzeContract"
        /\ history[k].ok
        /\ history[k].contractAddress = contractAddress}

Occurrences(seq, x) == Cardinality({k \in 1..Len(seq) : seq[k] = x})

\* C7: once an address has been analysed successfully twice or more, whatever
\* calls came between and after, getAnalysis returns for it the analysis the
\* latest of those calls returned, and analyzedContracts holds the address
\* once for each of those calls.
C7_LatestAnalysisStored ==
    \A a \in Addresses :
        Cardinality(Analyses(a)) >= 2 =>
            LET latest == CHOOSE k \in Analyses(a) :
                              \A j \in Analyses(a) : j <= k IN
            /\ getAnalysis(State, a).ok
            /\ getAnalysis(State, a).ret = history[latest].ret
            /\ Occurrences(analyzedContracts, a) = Cardinality(Analyses(a))

\* "0xA" analysed with a flagged batch, a cost updated, "0xA" analysed again
\* with another name and the empty batch: all four fields are the second's.
C7_Witness ==
    /\ Len(history) = 3
    /\ Analyses("0xA") = {1, 3}
    /\ history[2].op = "updateOperationCost"
    /\ history[1].ret.contractName = "Vault"
    /\ history[1].ret.totalFheOps = 6
    /\ history[1].ret.estimatedGas = 93840
    /\ Len(history[1].ret.optimizationSuggestions) = 1
    /\ contractAnalyses["0xA"] =
        [contractName |-> "Token", totalFheOps |-> 0, estimatedGas |-> 0,
         optimizationSuggestions |-> <<>>]
    /\ analyzedContracts = <<"0xA", "0xA">>

(***************************************************************************)
(* C8                                                                      *)
(***************************************************************************)
\* C8 as stated: on the newly constructed contract the batch
\* operations = ["mul", "add"], counts = [6, 2], avgDataSize = 32 succeeds
\* with estimatedGas 104480, totalFheOps 8 and one suggestion, the seeded
\* costs being registered under the names "mul", "add", ...
C8_ExampleUnderBareNames ==
    ( /\ Len(history) = 1
      /\ history[1].op = "analyzeContract"
      /\ history[1].operations = <<"mul", "add">>
      /\ history[1].operationCounts = <<6, 2>>
      /\ history[1].avgDataSize = 32 )
    => /\ operationCosts["mul"].baseCost = 15000
       /\ operationCosts["mul"].perByteCost = 20
       /\ operationCosts["add"].baseCost = 5000
       /\ operationCosts["add"].perByteCost = 10
       /\ history[1].ok
       /\ history[1].ret.estimatedGas = 104480
       /\ history[1].ret.totalFheOps = 8
       /\ Len(history[1].ret.optimizationSuggestions) = 1

\* The table of section 4.1, under the names the constructor uses.
C8_Table ==
    [n \in DefaultNames |->
        CASE n = "FHE.add"  -> <<5000, 10>>
          [] n = "FHE.sub"  -> <<5000, 10>>
          [] n = "FHE.mul"  -> <<15000, 20>>
          [] n = "FHE.div"  -> <<20000, 25>>
          [] n = "FHE.gt"   -> <<8000, 15>>
          [] n = "FHE.lt"   -> <<8000, 15>>
          [] n = "FHE.eq"   -> <<7000, 12>>
          [] n = "FHE.ne"   -> <<7000, 12>>
          [] n = "FHE.and"  -> <<6000, 10>>
          [] n = "FHE.or"   -> <<6000, 10>>
          [] n = "FHE.not"  -> <<4000, 8>>
          [] n = "FHE.cast" -> <<3000, 5>>]

\* C8 amended: the constructor registers the twelve costs under the names
\* "FHE.add", "FHE.sub", ..., "FHE.cast" (nothing under "add", "mul"); on the
\* newly constructed contract the batch operations = ["FHE.mul", "FHE.add"],
\* counts = [6, 2], avgDataSize = 32 succeeds with estimatedGas 104480,
\* totalFheOps 8 and exactly one suggestion, for "FHE.mul".
C8_ExampleUnderSeededNames ==
    /\ history = <<>> =>
        /\ \A n \in DefaultNames :
            /\ operationCosts[n].operationName = n
            /\ operationCosts[n].baseCost = C8_Table[n][1]
            /\ operationCosts[n].perByteCost = C8_Table[n][2]
        /\ \A n \in OpUniverse \ DefaultNames : operationCosts[n] = ZeroCost
    /\ ( /\ history # <<>>
         /\ history[1].op = "analyzeContract"
         /\ history[1].operations = <<"FHE.mul", "FHE.add">>
         /\ history[1].operationCounts = <<6, 2>>
         /\ history[1].avgDataSize = 32 )
       => /\ history[1].ok
          /\ history[1].ret.estimatedGas = 104480
          /\ history[1].ret.totalFheOps = 8
          /\ history[1].ret.optimizationSuggestions =
                <<"Consider reducing calls to FHE.mul (6 calls)">>

\* The example batch is the first call on the contract and has returned.
C8_Witness ==
    /\ Len(history) = 1
    /\ Last.op = "analyzeContract"
    /\ Last.operations = <<"FHE.mul", "FHE.add">>
    /\ Last.operationCounts = <<6, 2>>
    /\ Last.avgDataSize = 32
    /\ Last.ok
    /\ contractAnalyses[Last.contractAddress].estimatedGas = 104480

(***************************************************************************)
(* C9                                                                      *)
(***************************************************************************)
\* Every entry of the batch before entry i is registered and within range.
C9_Reaches(costs, operations, counts, avgDataSize, i) ==
    \A j \in 1..(i - 1) :
        /\ ~Unregistered(costs, operations[j])
        /\ ~OverflowsAt(costs, operations, counts, avgDataSize, j)

C9_AnalyzeStep ==
    Made.op = "analyzeContract" =>
        LET n == Len(Made.operations) IN
        /\ Made.ok =>
            /\ Made.ret.estimatedGas =
                ExactGas(operationCosts, Made.operations,
                         Made.operationCounts, Made.avgDataSize, n)
            /\ Made.ret.totalFheOps = ExactOps(Made.operationCounts, n)
            /\ Made.ret.estimatedGas <= MaxUint
            /\ contractAnalyses'[Made.contractAddress] = Made.ret
        /\ ( /\ n = Len(Made.operationCounts)
             /\ \E i \in 1..n :
                    /\ C9_Reaches(operationCosts, Made.operations,
                                  Made.operationCounts, Made.avgDataSize, i)
                    /\ ~Unregistered(operationCosts, Made.operations[i])
                    /\ OverflowsAt(operationCosts, Made.operations,
                                   Made.operationCounts, Made.avgDataSize, i) )
           => /\ ~Made.ok
              /\ Made.err = ErrOverflow
              /\ StoreUnchanged
              /\ UNCHANGED operationCosts

C9_EstimateStep ==
    Made.op = "estimateSingleOperation" =>
        LET cost == operationCosts[Made.operation]
            gas == cost.baseCost + cost.perByteCost * Made.dataSize IN
        /\ Made.ok => (Made.ret = gas /\ Made.ret <= MaxUint)
        /\ (cost.baseCost > 0 /\ gas > MaxUint) =>
                (~Made.ok /\ Made.err = ErrOverflow)

\* C9: analyzeContract never returns or stores a value reduced modulo the
\* integer range: a call that returns gives the exact sums, and a call that
\* reaches an entry where perByteCost * avgDataSize, baseCost plus that
\* product, opGas * count, the running totalGas or the running totalOps
\* exceeds the range fails with the arithmetic-overflow panic and changes
\* no state.  estimateSingleOperation likewise returns the exact value or
\* fails with the panic.
C9_NoWrappedValue == [][C9_AnalyzeStep /\ C9_EstimateStep]_vars

\* Two entries each within range, 40000 * 6 and 5000 * 5, whose running
\* total is not: the call panics although no single product overflows.
C9_Witness ==
    /\ LastIs("analyzeContract")
    /\ operationCosts["FHE.mul"] = OperationCost("FHE.mul", 40000, 0)
    /\ Last.operations = <<"FHE.mul", "FHE.add">>
    /\ Last.operationCounts = <<6, 5>>
    /\ Last.avgDataSize = 0
    /\ 40000 * 6 <= MaxUint
    /\ 40000 * 6 + 5000 * 5 > MaxUint
    /\ ~Last.ok
    /\ Last.err = ErrOverflow
    /\ analysisCount = 1

C11_Step ==
    Made.op = "updateOperationCost" =>
        /\ Made.ok
        /\ operationCosts' =
            [operationCosts EXCEPT
                ![Made.operation] =
                    [operationName |-> Made.operation,
                     baseCost |-> Made.baseCost,
                     perByteCost |-> Made.perByteCost]]
        /\ UNCHANGED <<contractAnalyses, analyzedContracts, analysisCount>>
        /\ events' = Append(events,
                [event |-> "OperationCostUpdated",
                 operation |-> Made.operation,
                 baseCost |-> Made.baseCost,
                 perByteCost |-> Made.perByteCost])

\* C11: updateOperationCost succeeds for any name and any values, zero
\* included; afterwards the entry of the name holds the new baseCost and
\* perByteCost, every other entry, every stored analysis, the
\* analyzedContracts array and analysisCount are as before, and exactly one
\* OperationCostUpdated(name, baseCost, perByteCost) event has been emitted.
C11_UpdateReplacesOneEntry == [][C11_Step]_vars

\* A name never registered gets a cost after "0xA" was analysed with FHE.mul,
\* then the cost of FHE.mul is replaced: the stored analysis keeps the gas
\* computed with the seeded cost.
C11_Witness ==
    /\ Len(history) = 3
    /\ history[1].op = "analyzeContract"
    /\ history[1].ok
    /\ history[1].contractAddress = "0xA"
    /\ history[1].operations = <<"FHE.mul">>
    /\ history[2] = Logged(UpdateCall("mul", 20000, 25), Return(<<>>, <<>>))
    /\ history[3] = Logged(UpdateCall("FHE.mul", 0, 20), Return(<<>>, <<>>))
    /\ operationCosts["mul"] = OperationCost("mul", 20000, 25)
    /\ operationCosts["FHE.mul"] = OperationCost("FHE.mul", 0, 20)
    /\ operationCosts["FHE.add"] = OperationCost("FHE.add", 5000, 10)
    /\ contractAnalyses["0xA"].estimatedGas = 93840
    /\ Len(events) = 4

(***************************************************************************)
(* C12                                                                     *)
(***************************************************************************)
\* C12: the analysis a successful analyzeContract returns has totalFheOps =
\* the sum of all the counts of the batch, zero counts and repeated names
\* included, and contractName = the contractName passed.
C12_TotalOpsAndName ==
    (LastIs("analyzeContract") /\ Last.ok) =>
        /\ Last.ret.totalFheOps =
            ExactOps(Last.operationCounts, Len(Last.operationCounts))
        /\ Last.ret.contractName = Last.contractName

\* FHE.add named twice, with counts 0 and 9, for the address that holds an
\* analysis under another name.
C12_Witness ==
    /\ LastIs("analyzeContract")
    /\ Last.ok
    /\ Last.contractAddress = "0xA"
    /\ Last.operations = <<"FHE.add", "FHE.add">>
    /\ Last.operationCounts = <<0, 9>>
    /\ Last.ret.totalFheOps = 9
    /\ history[1].ret.contractName = "Vault"
    /\ Last.ret.contractName = "Token"

(***************************************************************************)
(* C13                                                                     *)
(***************************************************************************)
\* C13: for an address no analyzeContract call has succeeded for, failed
\* calls or not, getAnalysis does not fail and returns the empty analysis:
\* empty name, totalFheOps 0, estimatedGas 0, no suggestions.
C13_UnanalyzedIsEmpty ==
    /\ \A a \in Addresses :
        Analyses(a) = {} =>
            /\ getAnalysis(State, a).ok
            /\ getAnalysis(State, a).ret =
                [contractName |-> "", totalFheOps |-> 0, estimatedGas |-> 0,
                 optimizationSuggestions |-> <<>>]
    /\ (LastIs("getAnalysis") /\ Analyses(Last.contractAddress) = {}) =>
            /\ Last.ok
            /\ Last.ret =
                [contractName |-> "", totalFheOps |-> 0, estimatedGas |-> 0,
                 optimizationSuggestions |-> <<>>]

\* An analysis of "0xB" fails, one of "0xA" succeeds, getAnalysis("0xB")
\* returns the empty analysis.
C13_Witness ==
    /\ Len(history) = 3
    /\ history[1].op = "analyzeContract"
    /\ history[1].contractAddress = "0xB"
    /\ ~history[1].ok
    /\ history[1].err = ErrUnknown
    /\ history[2].op = "analyzeContract"
    /\ history[2].contractAddress = "0xA"
    /\ history[2].ok
    /\ history[3].op = "getAnalysis"
    /\ history[3].contractAddress = "0xB"
    /\ history[3].ok
    /\ history[3].ret = ZeroAnalysis

(***************************************************************************)
(* C14                                                                     *)
(***************************************************************************)
\* The addresses of the successful analyzeContract calls among the first k
\* calls of the history, in call order.
RECURSIVE SubjectsOf(_)
SubjectsOf(k) ==
    IF k = 0 THEN <<>>
    ELSE IF history[k].op = "analyzeContract" /\ history[k].ok
         THEN Append(SubjectsOf(k - 1), history[k].contractAddress)
         ELSE SubjectsOf(k - 1)

\* C14: getAllAnalyzedContracts returns the addresses of the successful
\* analyzeContract calls made so far, in call order, an address once for each
\* of its calls; failed analyses, cost updates and the views add nothing, and
\* no entry is removed or moved.
C14_LogIsSuccessfulSubjects ==
    /\ getAllAnalyzedContracts(State).ok
    /\ getAllAnalyzedContracts(State).ret = SubjectsOf(Len(history))
    /\ LastIs("getAllAnalyzedContracts") =>
            (Last.ok /\ Last.ret = SubjectsOf(Len(history)))

\* "0xB" analysed, an analysis of "0xA" fails, "0xB" analysed again.
C14_Witness ==
    /\ Len(history) = 3
    /\ history[1].op = "analyzeContract"
    /\ history[1].ok
    /\ history[1].contractAddress = "0xB"
    /\ history[2].op = "analyzeContract"
    /\ ~history[2].ok
    /\ history[2].contractAddress = "0xA"
    /\ history[3].op = "analyzeContract"
    /\ history[3].ok
    /\ history[3].contractAddress = "0xB"
    /\ analyzedContracts = <<"0xB", "0xB">>

(***************************************************************************)
(* C15                                                                     *)
(***************************************************************************)
\* The registry after the first k calls of the history.
RegistryAsOf(k) == [n \in OpUniverse |-> CostAsOf(n, k)]

\* The analysis of the batch of call k, computed in unbounded arithmetic
\* against the registry the call found.
AnalysisOfCall(k) ==
    LET c == history[k]
        costs == RegistryAsOf(k - 1)
        n == Len(c.operations) IN
    [contractName |-> c.contractName,
     totalFheOps |-> ExactOps(c.operationCounts, n),
     estimatedGas |->
        ExactGas(costs, c.operations, c.operationCounts, c.avgDataSize, n),
     optimizationSuggestions |->
        C6_Expected(costs, c.operations, c.operationCounts, n)]

\* C15: calls are transactions, so analyses of one address and cost updates
\* interleave call by call; in every reachable state the analysis stored for
\* an address is empty or is, in all four fields, the analysis of one
\* successful analyzeContract call for that address (the latest), computed
\* against the one registry that call found.
C15_StoredIsOneWholeAnalysis ==
    \A a \in Addresses :
        IF Analyses(a) = {} THEN contractAnalyses[a] = ZeroAnalysis
        ELSE LET latest == CHOOSE k \in Analyses(a) :
                               \A j \in Analyses(a) : j <= k IN
             contractAnalyses[a] = AnalysisOfCall(latest)

\* "0xA" analysed under the seeded cost of FHE.mul, the cost replaced, "0xA"
\* analysed again under another name: (20000 + 25*32) * 6 = 124800.
C15_Witness ==
    /\ Len(history) = 3
    /\ history[1] =
        Logged(AnalyzeCall("0xA", "Vault", <<"FHE.mul">>, <<6>>, 32),
               [ok |-> TRUE, err |-> "", ret |-> history[1].ret])
    /\ history[1].ret.estimatedGas = 93840
    /\ history[2] = Logged(UpdateCall("FHE.mul", 20000, 25), Return(<<>>, <<>>))
    /\ history[3].op = "analyzeContract"
    /\ history[3].ok
    /\ history[3].contractAddress = "0xA"
    /\ history[3].contractName = "Token"
    /\ history[3].operations = <<"FHE.mul">>
    /\ contractAnalyses["0xA"] =
        [contractName |-> "Token", totalFheOps |-> 6, estimatedGas |-> 124800,
         optimizationSuggestions |->
            <<"Consider reducing calls to FHE.mul (6 calls)">>]

(***************************************************************************)
(* C16                                                                     *)
(***************************************************************************)
C16_Counts ==
    /\ analysisCount = Len(analyzedContracts)
    /\ analysisCount = Len(SubjectsOf(Len(history)))

C16_Step ==
    /\ analysisCount' =
        IF Made.op = "analyzeContract" /\ Made.ok
        THEN analysisCount + 1 ELSE analysisCount
    /\ analysisCount' >= analysisCount

\* C16: analysisCount is 0 after construction; in every reachable state it
\* equals the length of analyzedContracts and the number of successful
\* analyzeContract calls so far; a successful analyzeContract adds exactly 1
\* and every other call, failed analyses included, leaves it as it is.
C16_CounterCountsAnalyses ==
    /\ history = <<>> => analysisCount = 0
    /\ [](C16_Counts)
    /\ [][C16_Step]_vars

\* Two successful analyses of the same address and a failed one.
C16_Witness ==
    /\ Len(history) = 3
    /\ Cardinality(Analyses("0xA")) = 2
    /\ \E k \in 1..3 : history[k].op = "analyzeContract" /\ ~history[k].ok
    /\ analysisCount = 2
    /\ Len(analyzedContracts) = 2

(***************************************************************************)
(* C17                                                                     *)
(***************************************************************************)
\* One OptimizationSuggested event for each entry of the suggestions, in order.
SuggestionEvents(contractAddress, suggestions) ==
    [i \in 1..Len(suggestions) |->
        [event |-> "OptimizationSuggested",
         contractAddress |-> contractAddress,
         suggestion |-> suggestions[i]]]

AnalyzedEvent(contractAddress, estimatedGas) ==
    [event |-> "ContractAnalyzed",
     contractAddress |-> contractAddress,
     estimatedGas |-> estimatedGas]

C17_Step ==
    Made.op = "analyzeContract" =>
        IF Made.ok
        THEN /\ events' = events
                    \o SuggestionEvents(Made.contractAddress,
                                        Made.ret.optimizationSuggestions)
                    \o <<AnalyzedEvent(Made.contractAddress,
                                       Made.ret.estimatedGas)>>
             /\ contractAnalyses'[Made.contractAddress].estimatedGas =
                    Made.ret.estimatedGas
             /\ contractAnalyses'[Made.contractAddress].optimizationSuggestions =
                    Made.ret.optimizationSuggestions
        ELSE events' = events

\* C17: a successful analyzeContract emits, after whatever was emitted
\* before, one OptimizationSuggested event for each entry of the returned and
\* stored optimizationSuggestions, in their order and with their text, and
\* then exactly one ContractAnalyzed event carrying the address and the
\* estimatedGas that is returned and stored; a failed analyzeContract emits
\* nothing.
C17_EventsOfAnalysis == [][C17_Step]_vars

\* Two suggestions and then the ContractAnalyzed event, after the three
\* events of the earlier calls.
C17_Witness ==
    /\ LastIs("analyzeContract")
    /\ Last.ok
    /\ Len(Last.ret.optimizationSuggestions) = 2
    /\ Len(events) = 6
    /\ events[4].event = "OptimizationSuggested"
    /\ events[4].suggestion = "Consider reducing calls to FHE.mul (9 calls)"
    /\ events[5].event = "OptimizationSuggested"
    /\ events[5].suggestion = "Consider reducing calls to FHE.mul (6 calls)"
    /\ events[6] = AnalyzedEvent(Last.contractAddress, Last.ret.estimatedGas)

(***************************************************************************)
(* C18                                                                     *)
(***************************************************************************)
\* Calls j and k are analyzeContract calls with the same arguments.
SameReport(j, k) ==
    /\ history[j].op = "analyzeContract"
    /\ history[k].op = "analyzeContract"
    /\ history[j].contractAddress = history[k].contractAddress
    /\ history[j].contractName = history[k].contractName
    /\ history[j].operations = history[k].operations
    /\ history[j].operationCounts = history[k].operationCounts
    /\ history[j].avgDataSize = history[k].avgDataSize

\* C18: two analyzeContract calls with the same arguments that find equal
\* registries end alike, with the same error or with equal analyses, whatever
\* analyses, addresses and count are stored when each is made; and while the
\* later one is the latest analysis of its address, getAnalysis returns what
\* the earlier one returned.
C18_OutcomeFromReportAndRegistry ==
    \A k \in 1..Len(history) : \A j \in 1..(k - 1) :
        (SameReport(j, k) /\ RegistryAsOf(j - 1) = RegistryAsOf(k - 1)) =>
            /\ history[k].ok = history[j].ok
            /\ history[k].err = history[j].err
            /\ history[k].ret = history[j].ret
            /\ (history[k].ok /\
                \A i \in Analyses(history[k].contractAddress) : i <= k) =>
                    getAnalysis(State, history[k].contractAddress).ret =
                        history[j].ret

\* An analysis of "0xA", then an empty analysis stored for it under another
\* name, then the first call again.
C18_Witness ==
    /\ Len(history) = 3
    /\ history[1].ok
    /\ history[2].ok
    /\ history[3].ok
    /\ SameReport(1, 3)
    /\ history[1].contractAddress = "0xA"
    /\ history[1].operations = <<"FHE.mul">>
    /\ history[2].op = "analyzeContract"
    /\ history[2].contractAddress = "0xA"
    /\ history[2].contractName # history[1].contractName
    /\ history[2].operations = <<>>
    /\ analysisCount = 3
    /\ contractAnalyses["0xA"] = history[1].ret

(***************************************************************************)
(* C19                                                                     *)
(***************************************************************************)
C19_Step ==
    (/\ Made.op = "analyzeContract"
     /\ Made.operations = <<>>
     /\ Made.operationCounts = <<>>) =>
        /\ Made.ok
        /\ Made.ret = [contractName |-> Made.contractName,
                       totalFheOps |-> 0,
                       estimatedGas |-> 0,
                       optimizationSuggestions |-> <<>>]
        /\ contractAnalyses' =
            [contractAnalyses EXCEPT ![Made.contractAddress] = Made.ret]
        /\ analyzedContracts' = Append(analyzedContracts, Made.contractAddress)
        /\ analysisCount' = analysisCount + 1
        /\ events' = Append(events, AnalyzedEvent(Made.contractAddress, 0))
        /\ operationCosts' = operationCosts

\* C19: analyzeContract with no operations and no counts succeeds for every
\* avgDataSize and returns the given name with totalFheOps 0, estimatedGas 0
\* and no suggestions; it is recorded like any analysis: the returned record
\* replaces what was stored for the address, the address is appended to
\* analyzedContracts, analysisCount grows by 1, and the one event emitted is
\* ContractAnalyzed with the address and 0.
C19_EmptyBatchIsRecorded == [][C19_Step]_vars

\* The analysis stored for "0xA" replaced by an empty one, avgDataSize 600.
C19_Witness ==
    /\ LastIs("analyzeContract")
    /\ Last.operations = <<>>
    /\ Last.operationCounts = <<>>
    /\ Last.avgDataSize = 600
    /\ Last.contractAddress = "0xA"
    /\ history[1].ret.totalFheOps = 6
    /\ contractAnalyses["0xA"] =
        [contractName |-> "Token", totalFheOps |-> 0, estimatedGas |-> 0,
         optimizationSuggestions |-> <<>>]
    /\ analyzedContracts = <<"0xA", "0xA">>
    /\ analysisCount = 2
    /\ Last.ok

====
